---- MODULE Spec2Model ----
(***************************************************************************)
(* Model of the label-text and title query families and of the suggestion  *)
(* engine of dom-testing-library.                                          *)
(*                                                                         *)
(* A document is a tree of elements numbered in document (pre-)order;      *)
(* node 0 is the document body.  Strings are sequences of one-character    *)
(* strings so that trimming, whitespace collapsing, substring search and   *)
(* token-list splitting are computed, not assumed.                         *)
(***************************************************************************)
EXTENDS Integers, Sequences, FiniteSets, TLC

VARIABLES doc, container, text, options, element, variant, call, outcome

vars == <<doc, container, text, options, element, variant, call, outcome>>

\* Number of elements below the document body.
MaxNodes == 3

\* ------------------------------------------------------------------ strings

\* An absent attribute (getAttribute returns null).
Null == <<"<null>">>

IsSpace(c) == c = " "

RECURSIVE TrimLeft(_)
TrimLeft(s) ==
  IF s # <<>> /\ IsSpace(Head(s)) THEN TrimLeft(Tail(s)) ELSE s

RECURSIVE TrimRight(_)
TrimRight(s) ==
  IF s # <<>> /\ IsSpace(s[Len(s)]) THEN TrimRight(SubSeq(s, 1, Len(s) - 1)) ELSE s

\* String.prototype.trim
Trim(s) == TrimRight(TrimLeft(s))

\* text.replace(/\s+/g, ' ')
RECURSIVE CollapseWhitespace(_)
CollapseWhitespace(s) ==
  IF s = <<>> THEN <<>>
  ELSE IF IsSpace(Head(s))
       THEN <<" ">> \o CollapseWhitespace(TrimLeft(s))
       ELSE <<Head(s)>> \o CollapseWhitespace(Tail(s))

\* getDefaultNormalizer({trim, collapseWhitespace}): both default to true.
getDefaultNormalizer(trim, collapseWhitespace, s) ==
  LET t == IF trim THEN Trim(s) ELSE s
  IN  IF collapseWhitespace THEN CollapseWhitespace(t) ELSE t

\* A normalizer is the pair of flags it was built from.
DefaultNormalizer == [trim |-> TRUE, collapseWhitespace |-> TRUE]

Normalize(nz, s) == getDefaultNormalizer(nz.trim, nz.collapseWhitespace, s)

\* makeNormalizer({collapseWhitespace, trim, normalizer}): the caller's
\* normalizer when one is given, otherwise the default one built from the
\* two flags.
makeNormalizer(o) ==
  IF o.normalizer # <<>> THEN o.normalizer[1]
  ELSE [trim |-> o.trim, collapseWhitespace |-> o.collapseWhitespace]

ToLowerChar(c) == IF c = "E" THEN "e" ELSE IF c = "Z" THEN "z" ELSE c

ToLowerCase(s) == [i \in 1..Len(s) |-> ToLowerChar(s[i])]

\* String.prototype.indexOf: the first position of sub in s, 0 when absent.
IndexOf(s, sub) ==
  LET hits == {i \in 1..(Len(s) - Len(sub) + 1) : SubSeq(s, i, i + Len(sub) - 1) = sub}
  IN  IF hits = {} THEN 0 ELSE CHOOSE i \in hits : \A j \in hits : i <= j

Includes(s, sub) == IndexOf(s, sub) # 0

\* String.prototype.replace(sub, ''): the first occurrence is removed.
ReplaceFirst(s, sub) ==
  LET i == IndexOf(s, sub)
  IN  IF i = 0 THEN s
      ELSE SubSeq(s, 1, i - 1) \o SubSeq(s, i + Len(sub), Len(s))

\* matches(textToMatch, node, matcher, normalizer) for a string matcher.
matches(textToMatch, matcher, nz) ==
  /\ textToMatch # Null
  /\ Normalize(nz, textToMatch) = matcher

\* fuzzyMatches(textToMatch, node, matcher, normalizer) for a string matcher.
fuzzyMatches(textToMatch, matcher, nz) ==
  /\ textToMatch # Null
  /\ Includes(ToLowerCase(Normalize(nz, textToMatch)), ToLowerCase(matcher))

Matcher(exact, textToMatch, matcher, nz) ==
  IF exact THEN matches(textToMatch, matcher, nz)
  ELSE fuzzyMatches(textToMatch, matcher, nz)

\* The whitespace-separated tokens of an attribute value.
RECURSIVE Tokens(_)
Tokens(s) ==
  LET t == TrimLeft(s)
      sp == IndexOf(t, <<" ">>)
  IN  IF t = <<>> THEN {}
      ELSE IF sp = 0 THEN {t}
      ELSE {SubSeq(t, 1, sp - 1)} \cup Tokens(SubSeq(t, sp + 1, Len(t)))

Range(s) == {s[i] : i \in 1..Len(s)}

\* Array.from(new Set(s)): first occurrences, in insertion order.
RECURSIVE Dedup(_)
Dedup(s) ==
  IF s = <<>> THEN <<>>
  ELSE LET r == Dedup(SubSeq(s, 1, Len(s) - 1))
       IN  IF s[Len(s)] \in Range(r) THEN r ELSE Append(r, s[Len(s)])

RECURSIVE Flatten(_)
Flatten(ss) == IF ss = <<>> THEN <<>> ELSE Head(ss) \o Flatten(Tail(ss))

\* ---------------------------------------------------------------- document

\* An element without attributes and without text of its own.
Plain ==
  [tag |-> "div", id |-> Null, for |-> Null, labelledby |-> Null,
   arialabel |-> Null, title |-> Null, placeholder |-> Null, alt |-> Null,
   role |-> Null, value |-> <<>>, text |-> <<>>, parent |-> 0]

Elem(n) == IF n = 0 THEN Plain ELSE doc[n]

getAttribute(n, name) ==
  CASE name = "id" -> Elem(n).id
    [] name = "for" -> Elem(n).for
    [] name = "aria-labelledby" -> Elem(n).labelledby
    [] name = "aria-label" -> Elem(n).arialabel
    [] name = "title" -> Elem(n).title
    [] name = "placeholder" -> Elem(n).placeholder
    [] name = "alt" -> Elem(n).alt

\* A getAttribute result used as a condition: null and "" are falsy.
Truthy(v) == v # Null /\ v # <<>>

\* root.contains(n) for a node n other than root.
RECURSIVE Contains(_, _)
Contains(root, n) ==
  n # 0 /\ (Elem(n).parent = root \/ Contains(root, Elem(n).parent))

\* The elements of the document, and their document order.
Elements == 1..MaxNodes

DocumentOrder == [i \in 1..MaxNodes |-> i]

\* root.querySelectorAll(selector): the descendants of root that the
\* selector, a predicate over the elements, selects, in document order.
querySelectorAll(root, sel) ==
  SelectSeq(DocumentOrder, LAMBDA n : Contains(root, n) /\ sel[n])

\* root.querySelector(selector), a singleton sequence or <<>> for null.
querySelector(root, sel) ==
  LET all == querySelectorAll(root, sel)
  IN  IF all = <<>> THEN <<>> ELSE <<all[1]>>

\* node.textContent: the text of the node and of its descendants in
\* document order (an element's own text precedes its child elements).
RECURSIVE ConcatText(_)
ConcatText(ns) ==
  IF ns = <<>> THEN <<>> ELSE Elem(Head(ns)).text \o ConcatText(Tail(ns))

textContent(n) ==
  Elem(n).text \o ConcatText(querySelectorAll(n, [d \in Elements |-> TRUE]))

\* getNodeText(node): the text nodes that are children of the node.
getNodeText(n) == Elem(n).text

\* 'button, input, meter, output, progress, select, textarea'
formControlSelector(n) ==
  Elem(n).tag \in {"button", "input", "meter", "output", "progress", "select", "textarea"}

\* element.matches(selector) for the selectors '*' and a tag name.
elementMatches(n, selector) == selector = "*" \/ Elem(n).tag = selector

\* label.control: with a for attribute the first element of the document
\* with that id, when it is labelable; without one the first labelable
\* descendant of the label.
labelControl(l) ==
  IF Elem(l).for # Null
  THEN LET t == querySelector(0, [n \in Elements |-> Elem(n).id = Elem(l).for])
       IN  IF t # <<>> /\ formControlSelector(t[1]) THEN t ELSE <<>>
  ELSE querySelector(l, [n \in Elements |-> formControlSelector(n)])

\* element.labels: the labels of the document whose control is the element.
elementLabels(e) ==
  IF formControlSelector(e)
  THEN querySelectorAll(0, [l \in Elements |-> Elem(l).tag = "label" /\ labelControl(l) = <<e>>])
  ELSE <<>>

\* [aria-labelledby*="id"] below root: the id anywhere in the value.
ariaLabelledBySubstring(root, id) ==
  querySelectorAll(root, [n \in Elements |-> Elem(n).labelledby # Null /\ Includes(Elem(n).labelledby, id)])

\* [aria-labelledby~="id"] below root.
ariaLabelledBySelector(root, id) ==
  querySelectorAll(root, [n \in Elements |-> Elem(n).labelledby # Null /\ id \in Tokens(Elem(n).labelledby)])


\* ------------------------------------------------------------ label queries

\* textToMatch = textToMatch.replace(value, '') for each value in turn.
RECURSIVE StripEach(_, _)
StripEach(s, vals) ==
  IF vals = <<>> THEN s
  ELSE StripEach(ReplaceFirst(s, Head(vals)), Tail(vals))

\* The text a label is matched by: its textContent without the value of
\* the textareas and the text of the selects it holds.
labelTextToMatch(label) ==
  LET textareas == querySelectorAll(label, [n \in Elements |-> Elem(n).tag = "textarea"])
      selects == querySelectorAll(label, [n \in Elements |-> Elem(n).tag = "select"])
      noTextarea ==
        StripEach(textContent(label),
                  [i \in 1..Len(textareas) |-> Elem(textareas[i]).value])
  IN  StripEach(noTextarea, [i \in 1..Len(selects) |-> textContent(selects[i])])

queryAllLabelsByText(c, t, o) ==
  LET matchNormalizer == makeNormalizer(o)
  IN  querySelectorAll(c, [n \in Elements |->
        /\ Elem(n).tag = "label"
        /\ Matcher(o.exact, labelTextToMatch(n), t, matchNormalizer)])

\* The options a callee gets when only some of them are passed on.
NoOptions ==
  [selector |-> "*", exact |-> TRUE, trim |-> TRUE,
   collapseWhitespace |-> TRUE, normalizer |-> <<>>]

\* queryAllByAttribute(attribute, container, text, options)
queryAllByAttribute(attribute, c, t, o) ==
  LET matchNormalizer == makeNormalizer(o)
  IN  querySelectorAll(c, [n \in Elements |->
        /\ getAttribute(n, attribute) # Null
        /\ Matcher(o.exact, getAttribute(n, attribute), t, matchNormalizer)])

\* queryAllByText(container, text, options): the container itself and its
\* descendants whose own text matches.
queryAllByText(c, t, o) ==
  LET matchNormalizer == makeNormalizer(o)
  IN  SelectSeq(<<c>> \o querySelectorAll(c, [n \in Elements |-> TRUE]), LAMBDA n :
        /\ elementMatches(n, o.selector)
        /\ Matcher(o.exact, getNodeText(n), t, matchNormalizer))

\* The elements one matching label contributes, in the order pushed.
elementsForLabel(c, label, selector) ==
  LET control == labelControl(label)
      byFor ==
        IF Truthy(Elem(label).for)
        THEN LET e == querySelector(c, [n \in Elements |-> Elem(n).id = Elem(label).for])
             IN  IF e = <<>> THEN <<-1>> ELSE e
        ELSE <<>>
      byId ==
        IF Truthy(Elem(label).id) THEN ariaLabelledBySelector(c, Elem(label).id)
        ELSE <<>>
      \* label.childNodes.length is 0 only when nothing is nested
      nested ==
        LET found == querySelectorAll(label, [n \in Elements |->
                       formControlSelector(n) /\ elementMatches(n, selector)])
        IN  IF found = <<>> THEN <<>> ELSE <<found[1]>>
  IN  control \o byFor \o byId \o nested

\* The elements labelled through labels and aria-label attributes.
labelledElements(c, t, o) ==
  LET matchNormalizer == makeNormalizer(o)
      labels == queryAllLabelsByText(c, t,
                  [NoOptions EXCEPT !.exact = o.exact, !.normalizer = <<matchNormalizer>>])
      perLabel == [i \in 1..Len(labels) |-> elementsForLabel(c, labels[i], o.selector)]
  IN  SelectSeq(Flatten(perLabel), LAMBDA e : e # -1)
        \o queryAllByAttribute("aria-label", c, t, [NoOptions EXCEPT !.exact = o.exact])

\* The elements whose aria-labelledby names an element with matching text.
ariaLabelledElements(c, t, o) ==
  LET matchNormalizer == makeNormalizer(o)
      possibleAriaLabelElements ==
        queryAllByText(c, t,
          [NoOptions EXCEPT !.exact = o.exact, !.normalizer = <<matchNormalizer>>])
      perLabel == [i \in 1..Len(possibleAriaLabelElements) |->
        LET labelId == Elem(possibleAriaLabelElements[i]).id
        IN  IF ~Truthy(labelId) THEN <<>> ELSE ariaLabelledBySelector(c, labelId)]
  IN  Flatten(perLabel)

\* The two lists concatenated without the Set that removes duplicates.
queryAllByLabelTextNoSet(c, t, o) ==
  SelectSeq(labelledElements(c, t, o) \o ariaLabelledElements(c, t, o),
            LAMBDA e : elementMatches(e, o.selector))

queryAllByLabelText(c, t, o) ==
  SelectSeq(Dedup(labelledElements(c, t, o) \o ariaLabelledElements(c, t, o)),
            LAMBDA e : elementMatches(e, o.selector))

\* No suggestion (getSuggestedQuery returns undefined).
NoSuggestion == [queryName |-> "", content |-> <<>>, variant |-> "", named |-> FALSE]

\* The value a call returns or the error it throws.
Return(v) ==
  [kind |-> "return", value |-> v, error |-> "", container |-> -1,
   suggestion |-> NoSuggestion]

NoOutcome ==
  [kind |-> "none", value |-> <<>>, error |-> "", container |-> -1,
   suggestion |-> NoSuggestion]

Throw(message) ==
  [kind |-> "throw", value |-> <<>>, error |-> message, container |-> -1,
   suggestion |-> NoSuggestion]

\* getConfig().getElementError(message, container)
getElementError(message, c) == [Throw(message) EXCEPT !.container = c]

\* The generic makeGetAllQuery form, which the source sets aside.
getAllByLabelTextGeneric(c, t, o) ==
  LET els == queryAllByLabelText(c, t, o)
  IN  IF els = <<>> THEN getElementError("Unable to find a label", c) ELSE Return(els)

getAllByLabelText(c, t, o) ==
  LET els == queryAllByLabelText(c, t, o)
  IN  IF els = <<>>
      THEN IF queryAllLabelsByText(c, t, o) # <<>>
           THEN getElementError("Found a label, however no form control was found", c)
           ELSE getElementError("Unable to find a label", c)
      ELSE Return(els)

\* makeSingleQuery(allQuery, getMultipleError) applied to allQuery's outcome.
makeSingleQuery(all, c) ==
  IF all.kind = "throw" THEN all
  ELSE IF Len(all.value) > 1 THEN getElementError("Found multiple elements", c)
  ELSE Return(IF all.value = <<>> THEN <<>> ELSE <<all.value[1]>>)

queryByLabelText(c, t, o) == makeSingleQuery(Return(queryAllByLabelText(c, t, o)), c)

\* getByLabelText built on queryAllByLabelText instead of getAllByLabelText.
getByLabelTextOnQueryAll(c, t, o) ==
  makeSingleQuery(Return(queryAllByLabelText(c, t, o)), c)

getByLabelText(c, t, o) == makeSingleQuery(getAllByLabelText(c, t, o), c)


\* ----------------------------------------------------------- title queries

\* '[title], svg > title'
titleSelector(n) ==
  \/ Elem(n).title # Null
  \/ Elem(n).tag = "title" /\ n # 0 /\ Elem(Elem(n).parent).tag = "svg"

\* The title attribute alone, without the text of svg title elements.
queryAllByTitleAttributeOnly(c, t, o) ==
  LET matchNormalizer == makeNormalizer(o)
  IN  querySelectorAll(c, [n \in Elements |->
        /\ titleSelector(n)
        /\ Matcher(o.exact, getAttribute(n, "title"), t, matchNormalizer)])

queryAllByTitle(c, t, o) ==
  LET matchNormalizer == makeNormalizer(o)
  IN  querySelectorAll(c, [n \in Elements |->
        /\ titleSelector(n)
        /\ \/ Matcher(o.exact, getAttribute(n, "title"), t, matchNormalizer)
           \/ Matcher(o.exact, getNodeText(n), t, matchNormalizer)])

\* makeGetAllQuery(allQuery, getMissingError)
makeGetAllQuery(els, c) ==
  IF els = <<>> THEN getElementError("Unable to find an element", c) ELSE Return(els)

\* buildQueries(queryAllByTitle, getMultipleError, getMissingError)
queryByTitle(c, t, o) == makeSingleQuery(Return(queryAllByTitle(c, t, o)), c)

getAllByTitle(c, t, o) == makeGetAllQuery(queryAllByTitle(c, t, o), c)

getByTitle(c, t, o) == makeSingleQuery(getAllByTitle(c, t, o), c)

\* ---------------------------------------------------------- suggestions

\* A value that `[id=${value}]` accepts unquoted: an identifier.
IsIdentifier(v) == v # <<>> /\ \A i \in 1..Len(v) : ~IsSpace(v[i])

\* getLabelTextFor(element): the text found (Null for undefined), or the
\* SyntaxError of a selector that does not parse.
getLabelTextFor(e) ==
  LET labels == elementLabels(e)
      withText == SelectSeq(labels, LAMBDA l :
                    Normalize(DefaultNormalizer, textContent(l)) # <<>>)
      ariaLabelledBy == getAttribute(e, "aria-labelledby")
  IN  IF withText # <<>>
      THEN [threw |-> FALSE, text |-> textContent(withText[1])]
      ELSE IF ~Truthy(ariaLabelledBy) THEN [threw |-> FALSE, text |-> Null]
      ELSE IF ~IsIdentifier(ariaLabelledBy) THEN [threw |-> TRUE, text |-> Null]
      ELSE LET label == querySelector(0, [n \in Elements |-> Elem(n).id = ariaLabelledBy])
           IN  [threw |-> FALSE,
                text |-> IF label = <<>> THEN Null ELSE textContent(label[1])]

makeSuggestion(queryName, content, v, named) ==
  [Return(<<>>) EXCEPT !.suggestion =
     [queryName |-> queryName, content |-> content, variant |-> v, named |-> named]]

getSuggestedQuery(e, v) ==
  LET labelText == getLabelTextFor(e)
      nodeText == Normalize(DefaultNormalizer, textContent(e))
  IN  IF Elem(e).role # Null THEN makeSuggestion("Role", Elem(e).role, v, TRUE)
      ELSE IF labelText.threw THEN Throw("SyntaxError")
      ELSE IF Truthy(labelText.text)
        THEN makeSuggestion("LabelText", labelText.text, v, FALSE)
      ELSE IF Truthy(getAttribute(e, "placeholder"))
        THEN makeSuggestion("PlaceholderText", getAttribute(e, "placeholder"), v, FALSE)
      ELSE IF nodeText # <<>> THEN makeSuggestion("Text", nodeText, v, FALSE)
      ELSE IF Elem(e).value # <<>>
        THEN makeSuggestion("DisplayValue", Normalize(DefaultNormalizer, Elem(e).value), v, FALSE)
      ELSE IF Truthy(getAttribute(e, "alt"))
        THEN makeSuggestion("AltText", getAttribute(e, "alt"), v, FALSE)
      ELSE IF Truthy(getAttribute(e, "title"))
        THEN makeSuggestion("Title", getAttribute(e, "title"), v, FALSE)
      ELSE Return(<<>>)

\* ---------------------------------------------------------------- inputs

\* The pattern of every call: the string "E".
E == <<"E">>

\* Elements that can hold child elements; the others hold text at most.
CanHoldElements(e) == e.tag \in {"div", "label", "svg", "select"}

RECURSIVE AncestorsIn(_, _)
AncestorsIn(d, n) ==
  IF n = 0 THEN {} ELSE {d[n].parent} \cup AncestorsIn(d, d[n].parent)

\* Elements are numbered in document order and only elements that can hold
\* child elements are parents.
WellFormed(d) ==
  \A i \in 1..MaxNodes :
    /\ d[i].parent < i
    /\ i > 1 => d[i].parent \in {i - 1} \cup AncestorsIn(d, i - 1)
    /\ d[i].parent # 0 => CanHoldElements(d[d[i].parent])

\* The documents of MaxNodes elements built from the element kinds K.
Documents(K) ==
  {d \in [1..MaxNodes -> {[k EXCEPT !.parent = p] : k \in K, p \in 0..(MaxNodes - 1)}] :
     WellFormed(d)}

LabelKinds ==
  { Plain,
    [Plain EXCEPT !.tag = "label", !.for = <<"a">>, !.text = E],
    [Plain EXCEPT !.tag = "label", !.id = <<"a">>, !.text = E],
    [Plain EXCEPT !.tag = "input", !.id = <<"a">>],
    [Plain EXCEPT !.tag = "input", !.labelledby = <<"a", " ", "b">>],
    [Plain EXCEPT !.tag = "input", !.labelledby = <<"a", "b">>],
    [Plain EXCEPT !.id = <<"b">>, !.text = <<" ", "E">>],
    [Plain EXCEPT !.tag = "textarea", !.arialabel = <<" ", "E">>,
                  !.text = <<"Z">>, !.value = <<"Z">>] }

LabelOptions ==
  { NoOptions,
    [NoOptions EXCEPT !.trim = FALSE],
    [NoOptions EXCEPT !.exact = FALSE, !.selector = "input"] }

TitleKinds ==
  { Plain,
    [Plain EXCEPT !.tag = "svg"],
    [Plain EXCEPT !.tag = "svg", !.title = E],
    [Plain EXCEPT !.tag = "title", !.text = E],
    [Plain EXCEPT !.tag = "title", !.text = <<"Z">>],
    [Plain EXCEPT !.title = <<"E", " ">>],
    [Plain EXCEPT !.title = <<"Z">>, !.text = E] }

TitleOptions ==
  { NoOptions,
    [NoOptions EXCEPT !.trim = FALSE],
    [NoOptions EXCEPT !.exact = FALSE] }

SuggestKinds ==
  { [Plain EXCEPT !.tag = "label", !.for = <<"a">>, !.text = E],
    [Plain EXCEPT !.tag = "label", !.for = <<"a">>, !.text = <<" ">>],
    [Plain EXCEPT !.id = <<"b">>, !.text = E],
    [Plain EXCEPT !.tag = "input", !.id = <<"a">>],
    [Plain EXCEPT !.tag = "input", !.labelledby = <<"b">>],
    [Plain EXCEPT !.tag = "input", !.labelledby = <<"a", " ", "b">>],
    [Plain EXCEPT !.tag = "img"] }

\* What an element may carry besides its kind, by suggestion source.
Sources == <<"role", "placeholder", "text", "value", "alt", "title">>

WithSources(e, S) ==
  [e EXCEPT
     !.role = IF "role" \in S THEN <<"button">> ELSE @,
     !.placeholder = IF "placeholder" \in S THEN <<"p">> ELSE @,
     !.text = IF "text" \in S /\ @ = <<>> THEN <<" ", "t">> ELSE @,
     !.value = IF "value" \in S THEN <<"v", " ">> ELSE @,
     !.alt = IF "alt" \in S THEN <<"i">> ELSE @,
     !.title = IF "title" \in S THEN <<"h">> ELSE @]

\* One source alone, or a source together with every source after it.
SourceSets ==
  {{Sources[i]} : i \in 1..Len(Sources)}
    \cup {{Sources[j] : j \in i..Len(Sources)} : i \in 1..(Len(Sources) + 1)}

NoCall ==
  /\ call = "none"
  /\ outcome = NoOutcome

InitLabel ==
  /\ doc \in Documents(LabelKinds)
  /\ container \in {0, 1}
  /\ text = E
  /\ options \in LabelOptions
  /\ element = 0
  /\ variant = "get"
  /\ NoCall

InitTitle ==
  /\ doc \in Documents(TitleKinds)
  /\ container \in {0, 1}
  /\ text = E
  /\ options \in TitleOptions
  /\ element = 0
  /\ variant = "get"
  /\ NoCall

InitSingle ==
  /\ \/ doc \in Documents(LabelKinds) /\ options \in LabelOptions
     \/ doc \in Documents(TitleKinds) /\ options \in TitleOptions
  /\ container = 0
  /\ text = E
  /\ element = 0
  /\ variant = "get"
  /\ NoCall

InitSuggest ==
  /\ element \in 1..MaxNodes
  /\ \E d \in Documents(SuggestKinds), S \in SourceSets :
       doc = [d EXCEPT ![element] = WithSources(@, S)]
  /\ container = 0
  /\ text = E
  /\ options = NoOptions
  /\ variant \in {"get", "queryAll"}
  /\ NoCall

\* --------------------------------------------------------------- actions

\* One call of a query: its outcome is what the caller observes.
Call(name, result) ==
  /\ call = "none"
  /\ call' = name
  /\ outcome' = result
  /\ UNCHANGED <<doc, container, text, options, element, variant>>

QueryAllByLabelText ==
  Call("queryAllByLabelText", Return(queryAllByLabelText(container, text, options)))

QueryByLabelText == Call("queryByLabelText", queryByLabelText(container, text, options))

GetAllByLabelText == Call("getAllByLabelText", getAllByLabelText(container, text, options))

GetByLabelText == Call("getByLabelText", getByLabelText(container, text, options))

QueryAllByTitle ==
  Call("queryAllByTitle", Return(queryAllByTitle(container, text, options)))

QueryByTitle == Call("queryByTitle", queryByTitle(container, text, options))

GetAllByTitle == Call("getAllByTitle", getAllByTitle(container, text, options))

GetByTitle == Call("getByTitle", getByTitle(container, text, options))

GetSuggestedQuery == Call("getSuggestedQuery", getSuggestedQuery(element, variant))

NextLabel ==
  \/ QueryAllByLabelText
  \/ GetAllByLabelText

NextTitle ==
  \/ QueryAllByTitle
  \/ GetAllByTitle

NextSingle ==
  \/ QueryByLabelText
  \/ GetByLabelText
  \/ QueryByTitle
  \/ GetByTitle

NextSuggest == GetSuggestedQuery

Init == InitLabel \/ InitTitle \/ InitSuggest

Next == NextLabel \/ NextTitle \/ NextSingle \/ NextSuggest

\* Every query on every input.
Spec == Init /\ [][Next]_vars

\* The multiple-result label queries.
SpecLabel == InitLabel /\ [][NextLabel]_vars

\* The multiple-result title queries.
SpecTitle == InitTitle /\ [][NextTitle]_vars

\* The single-result queries of both families.
SpecSingle == InitSingle /\ [][NextSingle]_vars

\* The suggestion engine.
SpecSuggest == InitSuggest /\ [][NextSuggest]_vars

\* ---------------------------------------------------------------- claims

\* The elements the last call returned.
Result == Range(outcome.value)

Returned(name) == call = name /\ outcome.kind = "return"

CallerNormalizer == makeNormalizer(options)

\* The labels below the container whose text matches the pattern.
MatchingLabels ==
  {l \in 1..MaxNodes :
     /\ Contains(container, l)
     /\ Elem(l).tag = "label"
     /\ Matcher(options.exact, labelTextToMatch(l), text, CallerNormalizer)}

\* C1: a single-result query never returns the first of several matches.
\* With n the number of elements the queryAll primitive returns, queryBy
\* throws the multiple-match error when n > 1, returns the match when
\* n = 1 and returns none when n = 0; getBy throws a not-found error when
\* n = 0, the multiple-match error when n > 1 and returns the match when
\* n = 1.
SingleOutcome(all, required, notFound) ==
  CASE Len(all) > 1 ->
         outcome = getElementError("Found multiple elements", container)
    [] Len(all) = 1 -> outcome = Return(<<all[1]>>)
    [] Len(all) = 0 ->
         IF required
         THEN outcome.kind = "throw" /\ outcome.error \in notFound
         ELSE outcome = Return(<<>>)

LabelNotFound ==
  {"Unable to find a label", "Found a label, however no form control was found"}

TitleNotFound == {"Unable to find an element"}

C1_SingleResultMultiplicity ==
  /\ call = "queryByLabelText" =>
       SingleOutcome(queryAllByLabelText(container, text, options), FALSE, LabelNotFound)
  /\ call = "getByLabelText" =>
       SingleOutcome(queryAllByLabelText(container, text, options), TRUE, LabelNotFound)
  /\ call = "queryByTitle" =>
       SingleOutcome(queryAllByTitle(container, text, options), FALSE, TitleNotFound)
  /\ call = "getByTitle" =>
       SingleOutcome(queryAllByTitle(container, text, options), TRUE, TitleNotFound)

\* A required label query met several matches and threw.
C1_Witness ==
  /\ call = "getByLabelText"
  /\ Len(queryAllByLabelText(container, text, options)) > 1
  /\ outcome.kind = "throw"

\* The case of C2: a matching label of the container with for="x", and the
\* first element of the container with id="x".
ForTargets ==
  {<<l, e>> \in MatchingLabels \X (1..MaxNodes) :
     /\ Truthy(Elem(l).for)
     /\ querySelector(container, [n \in Elements |-> Elem(n).id = Elem(l).for]) = <<e>>}

\* C2 as stated: querying by the text of a label with for="x" returns
\* exactly the element with id="x" and no other element.
C2_ReturnsExactlyForTarget ==
  (Returned("queryAllByLabelText") /\ options.selector = "*") =>
     \A p \in ForTargets : outcome.value = <<p[2]>>

\* C2 amended: the element with id="x" is in the result exactly once;
\* other elements the pattern labels may be returned with it.
C2_ForTargetReturnedOnce ==
  (Returned("queryAllByLabelText") /\ options.selector = "*") =>
     \A p \in ForTargets :
       Cardinality({i \in 1..Len(outcome.value) : outcome.value[i] = p[2]}) = 1

\* A label with for="x" matched and its target came back with another element.
C2_Witness ==
  /\ Returned("queryAllByLabelText")
  /\ options.selector = "*"
  /\ \E p \in ForTargets : p[2] \in Result /\ Len(outcome.value) > 1

\* The case of C3: an svg below the container and a title child of it whose
\* text matches the pattern.
SvgTitles ==
  {<<s, t>> \in (1..MaxNodes) \X (1..MaxNodes) :
     /\ Contains(container, s)
     /\ Elem(s).tag = "svg"
     /\ Elem(t).tag = "title"
     /\ Elem(t).parent = s
     /\ Matcher(TRUE, getNodeText(t), text, CallerNormalizer)}

\* C3 as stated: the exact title query returns the svg that owns the
\* matching title element, not the title element.
C3_ReturnsSvgNode ==
  (Returned("queryAllByTitle") /\ options.exact) =>
     \A p \in SvgTitles : p[1] \in Result /\ p[2] \notin Result

\* C3 amended: the exact title query returns the matching title element;
\* the svg that owns it is returned only when it has a title attribute
\* of its own.
C3_ReturnsTitleElement ==
  (Returned("queryAllByTitle") /\ options.exact) =>
     \A p \in SvgTitles :
       /\ p[2] \in Result
       /\ p[1] \in Result => Elem(p[1]).title # Null

\* An svg without a title attribute owns a matching title element.
C3_Witness ==
  /\ Returned("queryAllByTitle")
  /\ options.exact
  /\ \E p \in SvgTitles : Elem(p[1]).title = Null /\ p[2] \in Result

\* C5: getAllByLabelText throws exactly when queryAllByLabelText finds
\* nothing: the "found a label, however no form control" error through
\* getElementError with the container when some label of the container
\* matches the pattern, the generic "unable to find a label" error when
\* none does; otherwise it returns the elements found, unchanged.
C5_GetAllErrorCases ==
  call = "getAllByLabelText" =>
    LET els == queryAllByLabelText(container, text, options)
    IN  IF els = <<>>
        THEN outcome =
               getElementError(
                 IF MatchingLabels # {}
                 THEN "Found a label, however no form control was found"
                 ELSE "Unable to find a label",
                 container)
        ELSE outcome = Return(els)

\* A label matched, yet nothing was associated with it.
C5_Witness ==
  /\ call = "getAllByLabelText"
  /\ MatchingLabels # {}
  /\ outcome.kind = "throw"

\* C6: the elements a query returns are in document order.
C6_DocumentOrder ==
  (Returned("queryAllByLabelText") \/ Returned("queryAllByTitle")) =>
     \A i, j \in 1..Len(outcome.value) :
       i < j => outcome.value[i] < outcome.value[j]

\* The nodes whose text matches the pattern and that carry an id: the
\* container and its descendants by their own text, labels by label text.
MatchingIds ==
  {Elem(m).id : m \in {m \in 0..MaxNodes :
     /\ m = container \/ Contains(container, m)
     /\ Truthy(Elem(m).id)
     /\ \/ Matcher(options.exact, getNodeText(m), text, CallerNormalizer)
        \/ m \in MatchingLabels}}

\* The elements a matching label is associated with other than by its id:
\* its control, the target of its for attribute, the control nested in it.
LabelledByLabel ==
  UNION {Range(labelControl(l))
           \cup (IF Truthy(Elem(l).for)
                 THEN Range(querySelector(container, [n \in Elements |-> Elem(n).id = Elem(l).for]))
                 ELSE {})
           \cup Range(querySelector(l, [n \in Elements |->
                        formControlSelector(n) /\ elementMatches(n, options.selector)])) :
         l \in MatchingLabels}

\* C7: aria-labelledby is many-to-many and matched by whole tokens. Every
\* element below the container, satisfying the selector, whose token list
\* holds the id of a node with matching text is returned, whichever of
\* its tokens that is and however many elements name the same id; an
\* element that holds such an id only inside a longer token is not
\* returned on that account.
C7_AriaLabelledByTokens ==
  Returned("queryAllByLabelText") =>
    \A n \in 1..MaxNodes :
      (Contains(container, n) /\ Elem(n).labelledby # Null) =>
        LET named == Tokens(Elem(n).labelledby) \cap MatchingIds # {}
        IN  /\ (named /\ elementMatches(n, options.selector)) => n \in Result
            /\ (n \in Result /\ n \notin LabelledByLabel /\ Elem(n).arialabel = Null)
                 => named

\* An element naming two ids is returned for the text of the second one
\* while no node with the first id matches.
C7_Witness ==
  /\ Returned("queryAllByLabelText")
  /\ \E n \in Result :
       /\ Tokens(Elem(n).labelledby) = {<<"a">>, <<"b">>}
       /\ MatchingIds = {<<"b">>}

\* C8: every element queryAllByLabelText returns is a descendant of the
\* container.
C8_ResultInsideContainer ==
  Returned("queryAllByLabelText") => \A n \in Result : Contains(container, n)

\* C9: every node queryAllByTitle returns has a matching title attribute
\* or is a title element, child of an svg, with matching text; the node's
\* own text does not stand in for a title attribute that does not match.
C9_TitleMatchesOnly ==
  Returned("queryAllByTitle") =>
    \A n \in Result :
      \/ /\ Elem(n).title # Null
         /\ Matcher(options.exact, Elem(n).title, text, CallerNormalizer)
      \/ /\ Elem(n).tag = "title"
         /\ Elem(Elem(n).parent).tag = "svg"
         /\ Matcher(options.exact, getNodeText(n), text, CallerNormalizer)

\* C10: the caller's normalizer governs every matching path: an element
\* returned for its aria-label alone has an aria-label that matches the
\* pattern under the caller's normalizer, as label text and text with an
\* id do.
C10_CallerNormalizerEverywhere ==
  Returned("queryAllByLabelText") =>
    \A n \in Result :
      \/ n \in LabelledByLabel
      \/ Tokens(Elem(n).labelledby) \cap MatchingIds # {}
      \/ /\ Elem(n).arialabel # Null
         /\ Matcher(options.exact, Elem(n).arialabel, text, CallerNormalizer)

\* The sources of a suggestion that apply to the element, by the order of
\* C4: role, label text, placeholder, own text, value, alt, title.
LabelTextApplies(e) ==
  \/ \E l \in 1..MaxNodes :
       /\ Elem(l).tag = "label"
       /\ labelControl(l) = <<e>>
       /\ Normalize(DefaultNormalizer, textContent(l)) # <<>>
  \/ /\ Elem(e).labelledby # Null
     /\ \E id \in Tokens(Elem(e).labelledby) :
          \E m \in 1..MaxNodes :
            /\ Elem(m).id = id
            /\ \A k \in 1..(m - 1) : Elem(k).id # id
            /\ textContent(m) # <<>>

Applies(e) ==
  <<Elem(e).role # Null,
    LabelTextApplies(e),
    Truthy(Elem(e).placeholder),
    Normalize(DefaultNormalizer, textContent(e)) # <<>>,
    Elem(e).value # <<>>,
    Truthy(Elem(e).alt),
    Truthy(Elem(e).title)>>

Families ==
  <<"Role", "LabelText", "PlaceholderText", "Text", "DisplayValue", "AltText", "Title">>

\* C4: getSuggestedQuery returns the suggestion of the first source, in
\* the fixed order, that applies to the element, and none exactly when no
\* source applies.
C4_FirstApplicableSource ==
  call = "getSuggestedQuery" =>
    /\ outcome.kind = "return"
    /\ \A q \in 1..Len(Families) :
         outcome.suggestion.queryName = Families[q] <=>
           (Applies(element)[q] /\ \A h \in 1..(q - 1) : ~Applies(element)[h])
    /\ outcome.suggestion = NoSuggestion <=>
         \A q \in 1..Len(Families) : ~Applies(element)[q]

\* C4 on the elements whose aria-labelledby is absent or one identifier.
C4_WhenSelectorParses ==
  (call = "getSuggestedQuery" /\ outcome.kind = "return") =>
    /\ \A q \in 1..Len(Families) :
         outcome.suggestion.queryName = Families[q] <=>
           (Applies(element)[q] /\ \A h \in 1..(q - 1) : ~Applies(element)[h])
    /\ outcome.suggestion = NoSuggestion <=>
         \A q \in 1..Len(Families) : ~Applies(element)[q]


====
